---------------------------- MODULE Spec2Model ----------------------------
(***************************************************************************)
(* Model of src/main.cpp: the keyed 16-bit Feistel permutation prp16, the  *)
(* membership predicate hasValue, the scorer score_list and the key search *)
(* searchBestListID (random restarts + greedy bit-flip hillclimb).         *)
(*                                                                         *)
(* Representation of the C++ integer types.  TLC's integers are 32-bit     *)
(* signed, so a uint32_t does not fit in one:                              *)
(*   - a uint32_t key (listID) is the tuple of its four bytes,             *)
(*     <<bits 0..7, bits 8..15, bits 16..23, bits 24..31>>;                *)
(*   - the uint32_t accumulator x of F is the pair <<x >> 16, x & 0xFFFF>>,*)
(*     and its multiplication is carried out modulo 2^32 on 16-bit limbs;  *)
(*   - uint8_t and uint16_t values are naturals below 2^8 and 2^16.        *)
(***************************************************************************)
EXTENDS Integers, Sequences, FiniteSets

VARIABLES
    \* ---- searchBestListID (src/main.cpp:65-109)
    block,      \* const std::vector<uint16_t>& block
    cfg,        \* const SearchConfig& cfg: [restarts, hillIters]
    rngSeed,    \* uint64_t rngSeed, as the index of the seed's draw stream
    rngPos,     \* state of the local rng: number of draws made by this call
    res,        \* SearchResult res: [bestID, bestScore]
    r,          \* restart loop counter
    start,      \* uint32_t start (the restart's drawn key)
    cur,        \* hillclimb: uint32_t cur
    curScore,   \* hillclimb: int curScore
    pass,       \* hillclimb: pass loop counter
    b,          \* hillclimb: bit loop counter
    improved,   \* hillclimb: bool improved
    pc,         \* position of the call
    \* ---- observers of the call (history, not read by the search)
    passScore,  \* curScore when the current pass began
    nScore,     \* number of score_list invocations made by this call
    hist,       \* the pairs {cur, curScore} returned by hillclimb, per restart
    call,       \* 1 in the first call on this block/cfg/seed, 2 in the second
    prev,       \* SearchResult returned by the previous call, <<>> if none
    \* ---- sweep of the 16-bit universe under one key
    listID,     \* the key under test
    ux,         \* next input of the universe to classify
    members     \* number of inputs below ux with hasValue true

vars == <<block, cfg, rngSeed, rngPos, res, r, start, cur, curScore, pass, b,
          improved, pc, passScore, nScore, hist, call, prev,
          listID, ux, members>>

searchVars == <<block, cfg, rngSeed, rngPos, res, r, start, cur, curScore,
                pass, b, improved, pc, passScore, nScore, hist, call, prev>>

sweepVars == <<listID, ux, members>>

----------------------------------------------------------------------------
(* Bit-level arithmetic                                                    *)

\* a ^ b on naturals
RECURSIVE Xor(_, _)
Xor(a, c) ==
    IF a = 0 THEN c
    ELSE IF c = 0 THEN a
    ELSE (((a % 2) + (c % 2)) % 2) + 2 * Xor(a \div 2, c \div 2)

\* 0x45D9F3B
MixMul == 73244475

\* (u * m) & 0xFFFF for u < 2^16, m < 2^16, without leaving 31 bits
MulLow16(u, m) ==
    ((((u \div 256) * m) % 256) * 256 + ((u % 256) * m)) % 65536

\* (u * m) >> 16 for u < 2^16, m < 2^16
MulHigh16(u, m) ==
    LET A == (u \div 256) * m
        B == (u % 256) * m
    IN  (A \div 256) + (((A % 256) * 256 + B) \div 65536)

\* x *= m on uint32_t: x = <<hi, lo>>, m < 2^31, result modulo 2^32
Mul32(x, m) ==
    LET mh == m \div 65536
        ml == m % 65536
    IN  << ( MulHigh16(x[2], ml) + MulLow16(x[2], mh) + MulLow16(x[1], ml) ) % 65536,
           MulLow16(x[2], ml) >>

\* x ^= x >> 16 on uint32_t
XorShift16(x) == << x[1], Xor(x[2], x[1]) >>

\* the diffusion of F, lines 16-20, on x = r ^ key byte (a value below 256)
Mix(v) ==
    LET x0 == << 0, v >>
        x1 == Mul32(x0, MixMul)
        x2 == XorShift16(x1)
        x3 == Mul32(x2, MixMul)
        x4 == XorShift16(x3)
    IN  x4[2] % 256

\* Mix is a function of one byte: evaluated once per byte
MixTab == [v \in 0..255 |-> Mix(v)]

\* a ^ c on uint8_t values: Xor evaluated once per pair of bytes
XorTab == [a \in 0..255 |-> [c \in 0..255 |-> Xor(a, c)]]

Xor8(a, c) == XorTab[a][c]

\* (k >> (round * 8)) & 0xFF
KeyByte(k, round) == k[round + 1]

F(rr, k, round) == MixTab[Xor8(rr, KeyByte(k, round))]

\* one Feistel round on <<L, R>>: t = L ^ F(R, key, r); L = R; R = t
\* the loop of prp16 from round rd on: t = L ^ F(R, key, rd); L = R; R = t;
\* after round 3, (L << 8) | R
\* mutant: the round's assignments in the order R = t; L = R
RECURSIVE FeistelLateSwap(_, _, _, _)
FeistelLateSwap(L, R, key, rd) ==
    IF rd = 4 THEN L * 256 + R
    ELSE FeistelLateSwap(Xor8(L, F(R, key, rd)), Xor8(L, F(R, key, rd)), key, rd + 1)

RECURSIVE Feistel(_, _, _, _)
Feistel(L, R, key, rd) ==
    IF rd = 4 THEN L * 256 + R
    ELSE Feistel(R, Xor8(L, F(R, key, rd)), key, rd + 1)

prp16(x, key) == Feistel(x \div 256, x % 256, key, 0)

\* mutant: the comparison taken one too far
hasValueLe(id, x) == prp16(x, id) <= 32768

\* (y & 0x8000) == 0
hasValue(id, x) == prp16(x, id) < 32768

----------------------------------------------------------------------------
(* Scoring                                                                 *)

\* the loop of score_list from index i on: s += hasValue(listID, data[i]) ? 1 : 0
RECURSIVE CountMembers(_, _, _, _)
CountMembers(id, data, i, s) ==
    IF i > Len(data) THEN s
    ELSE CountMembers(id, data, i + 1, s + (IF hasValue(id, data[i]) THEN 1 ELSE 0))

\* mutant: the raw count, without std::max
score_listRaw(id, data) == CountMembers(id, data, 1, 0)

\* std::max(s, (int)n - s)
score_list(id, data) ==
    LET s == CountMembers(id, data, 1, 0)
        n == Len(data)
    IN  IF s < n - s THEN n - s ELSE s

----------------------------------------------------------------------------
(* Key search                                                              *)

\* bounds of the explored inputs
MaxLen == 6
MaxRestarts == 2
MaxHillIters == 3

\* number of key bits scanned per pass (for b = 0; b < 32)
KeyBits == 32

\* Blocks: prefixes of 0, 1, 2, ...; of 0x1234 repeated; of a scattered run
BaseBlocks(n) ==
    { [i \in 1..n |-> i - 1],
      [i \in 1..n |-> 4660],
      [i \in 1..n |-> (i * 40503 + 9001) % 65536] }

Blocks == UNION {BaseBlocks(n) : n \in 0..MaxLen}

\* dist32(rng) for std::mt19937_64 rng(0xC0FFEE123456789ull + s), s = 0, 1, 2:
\* the first draws of each seed's stream, as key bytes
RngStream ==
    << << <<138, 210, 120, 46>>, <<71, 108, 239, 249>>, <<89, 155, 173, 34>>,
          <<209, 226, 175, 191>>, <<200, 195, 43, 205>> >>,
       << <<231, 159, 13, 152>>, <<52, 39, 121, 81>>, <<211, 214, 164, 100>>,
          <<109, 77, 193, 205>>, <<69, 24, 192, 181>> >>,
       << <<184, 198, 224, 121>>, <<186, 253, 107, 63>>, <<254, 138, 187, 188>>,
          <<84, 13, 189, 62>>, <<100, 201, 215, 18>> >> >>

Seeds == 1..Len(RngStream)

\* the (pos + 1)-th draw of the generator seeded with seed
Draw(seed, pos) == RngStream[seed][pos + 1]

\* SearchResult res; (bestID = 0, bestScore = -1)
DefaultResult == [bestID |-> <<0, 0, 0, 0>>, bestScore |-> -1]

\* cur ^ (1u << bit)
FlipBit(k, bit) == [k EXCEPT ![(bit \div 8) + 1] = Xor8(@, 2 ^ (bit % 8))]

\* loop conditions
MoreRestartsLe == r <= cfg.restarts
MoreRestarts == r < cfg.restarts

MorePassesLe == pass <= cfg.hillIters
MorePasses == pass < cfg.hillIters

MoreBits == b < KeyBits

\* if (sc > curScore)
ImprovesFlipped(sc, best) == sc < best
Improves(sc, best) == sc > best

\* if (sc > res.bestScore)
BeatsBestOrTies(sc, best) == sc >= best
BeatsBest(sc, best) == sc > best

\* entry of searchBestListID: rng(rngSeed), dist32, res constructed
Init ==
    /\ block \in Blocks
    /\ cfg \in [restarts : -1..MaxRestarts, hillIters : 0..MaxHillIters]
    /\ rngSeed \in Seeds
    /\ rngPos = 0
    /\ res = DefaultResult
    /\ r = 0
    /\ start = <<0, 0, 0, 0>> /\ cur = <<0, 0, 0, 0>> /\ curScore = 0
    /\ pass = 0 /\ b = 0 /\ improved = FALSE
    /\ pc = "restart"
    /\ passScore = 0 /\ nScore = 0 /\ hist = <<>>
    /\ call = 1 /\ prev = <<>>
    /\ listID = <<0, 0, 0, 0>> /\ ux = 0 /\ members = 0

\* for (r < cfg.restarts): start = dist32(rng); hillclimb(start) entered:
\* cur = startID; curScore = score_list(cur, ...)
Restart ==
    /\ pc = "restart"
    /\ MoreRestarts
    /\ start' = Draw(rngSeed, rngPos)
    /\ rngPos' = rngPos + 1
    /\ cur' = start'
    /\ curScore' = score_list(start', block)
    /\ nScore' = nScore + 1
    /\ pass' = 0
    /\ passScore' = curScore'
    /\ pc' = "pass"
    /\ UNCHANGED <<block, cfg, rngSeed, res, r, b, improved, hist, call, prev, sweepVars>>

\* for (pass < cfg.hillIters): improved = false; b = 0
PassBegin ==
    /\ pc = "pass"
    /\ MorePasses
    /\ improved' = FALSE
    /\ b' = 0
    /\ passScore' = curScore
    /\ pc' = "bit"
    /\ UNCHANGED <<block, cfg, rngSeed, rngPos, res, r, start, cur, curScore, pass,
                   nScore, hist, call, prev, sweepVars>>

\* the pass loop ends with its passes used up: return {cur, curScore}
HillDone ==
    /\ pc = "pass"
    /\ ~MorePasses
    /\ pc' = "ret"
    /\ UNCHANGED <<block, cfg, rngSeed, rngPos, res, r, start, cur, curScore, pass, b,
                   improved, passScore, nScore, hist, call, prev, sweepVars>>

\* mutant: an accepted flip does not set improved
BitStepNoFlag ==
    /\ pc = "bit"
    /\ MoreBits
    /\ LET cand == FlipBit(cur, b)
           sc == score_list(cand, block)
       IN  IF Improves(sc, curScore)
           THEN cur' = cand /\ curScore' = sc
           ELSE UNCHANGED <<cur, curScore>>
    /\ b' = b + 1
    /\ nScore' = nScore + 1
    /\ UNCHANGED <<block, cfg, rngSeed, rngPos, res, r, start, pass, improved, pc,
                   passScore, hist, call, prev, sweepVars>>

\* one iteration of the bit loop: cand = cur ^ (1u << b); sc = score_list(cand);
\* if (sc > curScore) { cur = cand; curScore = sc; improved = true; }
BitStep ==
    /\ pc = "bit"
    /\ MoreBits
    /\ LET cand == FlipBit(cur, b)
           sc == score_list(cand, block)
       IN  IF Improves(sc, curScore)
           THEN cur' = cand /\ curScore' = sc /\ improved' = TRUE
           ELSE UNCHANGED <<cur, curScore, improved>>
    /\ b' = b + 1
    /\ nScore' = nScore + 1
    /\ UNCHANGED <<block, cfg, rngSeed, rngPos, res, r, start, pass, pc,
                   passScore, hist, call, prev, sweepVars>>

\* after the bit loop: if (!improved) break; else ++pass
PassEnd ==
    /\ pc = "bit"
    /\ ~MoreBits
    /\ IF improved
       THEN pass' = pass + 1 /\ pc' = "pass"
       ELSE pass' = pass /\ pc' = "ret"
    /\ UNCHANGED <<block, cfg, rngSeed, rngPos, res, r, start, cur, curScore, b,
                   improved, passScore, nScore, hist, call, prev, sweepVars>>

\* auto [id, sc] = hillclimb(start); if (sc > res.bestScore) {...}; ++r
Accept ==
    /\ pc = "ret"
    /\ hist' = Append(hist, [id |-> cur, sc |-> curScore])
    /\ res' = IF BeatsBest(curScore, res.bestScore)
              THEN [bestID |-> cur, bestScore |-> curScore]
              ELSE res
    /\ r' = r + 1
    /\ pc' = "restart"
    /\ UNCHANGED <<block, cfg, rngSeed, rngPos, start, cur, curScore, pass, b,
                   improved, passScore, nScore, call, prev, sweepVars>>

\* the restart loop ends: return res
Return ==
    /\ pc = "restart"
    /\ ~MoreRestarts
    /\ pc' = "returned"
    /\ UNCHANGED <<block, cfg, rngSeed, rngPos, res, r, start, cur, curScore, pass, b,
                   improved, passScore, nScore, hist, call, prev, sweepVars>>

\* mutant: the generator outlives the call (a static rng, seeded once)
CallAgainSharedRng ==
    /\ pc = "returned"
    /\ call = 1
    /\ prev' = res
    /\ call' = call + 1
    /\ res' = DefaultResult
    /\ r' = 0
    /\ start' = <<0, 0, 0, 0>> /\ cur' = <<0, 0, 0, 0>> /\ curScore' = 0
    /\ pass' = 0 /\ b' = 0 /\ improved' = FALSE
    /\ passScore' = 0 /\ nScore' = 0 /\ hist' = <<>>
    /\ pc' = "restart"
    /\ UNCHANGED <<block, cfg, rngSeed, rngPos, sweepVars>>

\* searchBestListID called again with the same block, cfg and rngSeed: its
\* locals (rng, dist32, res) are constructed anew
CallAgain ==
    /\ pc = "returned"
    /\ call = 1
    /\ prev' = res
    /\ call' = call + 1
    /\ rngPos' = 0
    /\ res' = DefaultResult
    /\ r' = 0
    /\ start' = <<0, 0, 0, 0>> /\ cur' = <<0, 0, 0, 0>> /\ curScore' = 0
    /\ pass' = 0 /\ b' = 0 /\ improved' = FALSE
    /\ passScore' = 0 /\ nScore' = 0 /\ hist' = <<>>
    /\ pc' = "restart"
    /\ UNCHANGED <<block, cfg, rngSeed, sweepVars>>

Next ==
    \/ Restart
    \/ PassBegin
    \/ HillDone
    \/ BitStep
    \/ PassEnd
    \/ Accept
    \/ Return
    \/ CallAgain

Spec == Init /\ [][Next]_vars

\* the search on the longest blocks
LongInit == Init /\ Len(block) = MaxLen

\* the scheduling of a sequential program: a step that can be taken is taken
FairSpec == LongInit /\ [][Next]_vars /\ WF_vars(Next)

----------------------------------------------------------------------------
(* Properties of the scorer and the search                                 *)

\* the key the search scores next, or scored last
KeyInHand == IF pc = "bit" /\ MoreBits THEN FlipBit(cur, b) ELSE cur

\* hasValue of every block value, by index
Membership(id, data) == [i \in 1..Len(data) |-> hasValue(id, data[i])]

\* C3: score_list returns max(c, n - c) for c the number of members among the
\* n block values; so ceil(n/2) <= score <= n, and score = n exactly when
\* hasValue is true for every element or false for every element.
C3_ScoreIsMajority ==
    LET n == Len(block)
        mem == Membership(KeyInHand, block)
        c == Cardinality({i \in 1..n : mem[i]})
        sc == score_list(KeyInHand, block)
    IN  /\ sc = (IF c > n - c THEN c ELSE n - c)
        /\ (n + 1) \div 2 <= sc
        /\ sc <= n
        /\ (sc = n) <=> ( \/ \A i \in 1..n : mem[i]
                          \/ \A i \in 1..n : ~mem[i] )

C3_Witness ==
    /\ pc = "bit"
    /\ Len(block) >= 3
    /\ Cardinality({i \in 1..Len(block) : hasValue(KeyInHand, block[i])}) = 1
    /\ score_list(KeyInHand, block) = Len(block) - 1

\* C4: with restarts <= 0 the search refuses to search and signals an error:
\* it never returns a SearchResult to its caller.
C4_RefusesWithoutRestarts == cfg.restarts <= 0 => pc # "returned"

\* C5: called again with the same block, configuration and seed, the search
\* returns the same SearchResult as the call before.
C5_Reproducible == (pc = "returned" /\ call > 1) => res = prev

C5_Witness ==
    /\ pc = "returned" /\ call = 2
    /\ cfg.restarts >= 2 /\ cfg.hillIters >= 1
    /\ res = prev
    /\ res.bestID \notin {Draw(rngSeed, i) : i \in 0..(cfg.restarts - 1)}

\* C6: within one hillclimb the current score never decreases: during and
\* after every pass it is at least its value when the pass began, and the
\* score the hillclimb returns is at least the score of its start key.
C6_NoRegression ==
    /\ pc \in {"pass", "bit", "ret"} => curScore >= passScore
    /\ pc = "pass" => passScore >= score_list(start, block)
    /\ pc = "ret" => curScore >= score_list(start, block)

C6_Witness ==
    /\ pc = "ret"
    /\ pass >= 1
    /\ passScore > score_list(start, block)
    /\ curScore > passScore

\* C7: with hillIters = 0 no bit is flipped: every hillclimb returns its start
\* key with that key's score, the returned bestID is one of the drawn keys,
\* and with restarts = 1 the result is the first draw with its score.
C7_PureRandomSearch ==
    cfg.hillIters = 0 =>
        /\ pc # "bit"
        /\ pc = "ret" => (cur = start /\ curScore = score_list(start, block))
        /\ (pc = "returned" /\ cfg.restarts >= 1) =>
               res.bestID \in {Draw(rngSeed, i) : i \in 0..(cfg.restarts - 1)}
        /\ (pc = "returned" /\ cfg.restarts = 1) =>
               res = [bestID |-> Draw(rngSeed, 0),
                      bestScore |-> score_list(Draw(rngSeed, 0), block)]

C7_Witness ==
    /\ cfg.hillIters = 0 /\ cfg.restarts = 1
    /\ pc = "returned"
    /\ Len(block) >= 3
    /\ res.bestID = Draw(rngSeed, 0)

\* index of the earliest restart whose hillclimb result has the highest score
FirstBest(h) ==
    CHOOSE i \in 1..Len(h) :
        /\ \A j \in 1..Len(h) : h[j].sc <= h[i].sc
        /\ \A j \in 1..(i - 1) : h[j].sc < h[i].sc

\* C8: for restarts >= 1 the returned bestScore is the maximum of the
\* hillclimb scores over all restarts and bestID is the key of the earliest
\* restart attaining it: a later restart that ties does not replace it.
C8_EarliestBestWins ==
    (pc = "returned" /\ cfg.restarts >= 1) =>
        /\ Len(hist) = cfg.restarts
        /\ res.bestScore = hist[FirstBest(hist)].sc
        /\ res.bestID = hist[FirstBest(hist)].id

C8_Witness ==
    /\ pc = "returned" /\ cfg.restarts >= 2
    /\ hist[1].sc = hist[2].sc
    /\ hist[1].id # hist[2].id
    /\ res.bestID = hist[1].id

\* C9: a hillclimb that stops on a pass without accepted flip returns a local
\* optimum: no single-bit flip of its key scores higher, and the returned
\* score is the score of the returned key.
C9_EarlyStopIsLocalOptimum ==
    (pc = "ret" /\ pass < cfg.hillIters) =>
        /\ curScore = score_list(cur, block)
        /\ \A bit \in 0..(KeyBits - 1) :
               score_list(FlipBit(cur, bit), block) <= score_list(cur, block)

C9_Witness ==
    /\ pc = "ret"
    /\ pass >= 1 /\ pass + 1 < cfg.hillIters
    /\ cur # start

\* C10 as stated: at most restarts x hillIters x 32 invocations of score_list
\* during one call.
C10_ScorerCallBound ==
    cfg.restarts >= 1 => nScore <= cfg.restarts * cfg.hillIters * KeyBits

\* steps one restart takes at most: Restart, per pass PassBegin, 32 BitSteps
\* and PassEnd, then HillDone and Accept
StepsPerRestart == 3 + cfg.hillIters * (KeyBits + 2)

NonNeg(i) == IF i < 0 THEN 0 ELSE i

\* upper bound on the steps left in the call
StepsLeft ==
    LET after == NonNeg(cfg.restarts - r - 1) * StepsPerRestart + 1
    IN  CASE pc = "returned" -> 0
          [] pc = "restart" -> NonNeg(cfg.restarts - r) * StepsPerRestart + 1
          [] pc = "pass" -> NonNeg(cfg.hillIters - pass) * (KeyBits + 2) + 2 + after
          [] pc = "bit" -> (KeyBits - b) + 1
                           + NonNeg(cfg.hillIters - pass - 1) * (KeyBits + 2) + 2 + after
          [] pc = "ret" -> 1 + after

\* C10 amended: every call terminates (each step of a call lowers StepsLeft,
\* which is never negative, and the call is eventually returned), and it
\* invokes score_list at most restarts x (1 + hillIters x 32) times.
C10_TerminatesWithinBound ==
    /\ [](cfg.restarts >= 1 => nScore <= cfg.restarts * (1 + cfg.hillIters * KeyBits))
    /\ [](StepsLeft >= 0)
    /\ [][pc # "returned" => StepsLeft' < StepsLeft]_vars
    /\ []<>(pc = "returned")

C10_Witness ==
    /\ pc = "returned"
    /\ cfg.restarts >= 2 /\ cfg.hillIters >= 1
    /\ nScore = cfg.restarts * (1 + cfg.hillIters * KeyBits)

----------------------------------------------------------------------------
(* Sweep of the whole 16-bit universe under a fixed key, one row of 256    *)
(* inputs (one value of the high byte x >> 8) per step                     *)

Universe == 65536

NumKeys == 6

\* 0x00000000, 0xFFFFFFFF, and draws of the seeded generator
TestKeys ==
    << <<0, 0, 0, 0>>, <<255, 255, 255, 255>>,
       <<138, 210, 120, 46>>, <<71, 108, 239, 249>>,
       <<231, 159, 13, 152>>, <<184, 198, 224, 121>>,
       <<29, 58, 145, 125>>, <<200, 195, 43, 205>> >>

SweepInit ==
    /\ listID \in {TestKeys[i] : i \in 1..NumKeys}
    /\ ux = 0
    /\ members = 0
    /\ block = <<>> /\ cfg = [restarts |-> 0, hillIters |-> 0]
    /\ rngSeed = 1 /\ rngPos = 0
    /\ res = [bestID |-> <<0, 0, 0, 0>>, bestScore |-> -1]
    /\ r = 0 /\ start = <<0, 0, 0, 0>> /\ cur = <<0, 0, 0, 0>>
    /\ curScore = 0 /\ pass = 0 /\ b = 0 /\ improved = FALSE
    /\ pc = "sweep" /\ passScore = 0 /\ nScore = 0 /\ hist = <<>>
    /\ call = 0 /\ prev = <<>>

\* hasValue applied to the inputs ux .. ux + 255
ClassifyRow ==
    /\ pc = "sweep"
    /\ ux < Universe
    /\ members' = members + Cardinality({x \in ux..(ux + 255) : hasValue(listID, x)})
    /\ ux' = ux + 256
    /\ UNCHANGED <<listID, searchVars>>

SweepNext == ClassifyRow

SweepSpec == SweepInit /\ [][SweepNext]_vars

Image(key) == {prp16(x, key) : x \in 0..(Universe - 1)}

\* C1: for every key, prp16(., key) maps the 65536 inputs to 65536 distinct
\* outputs of the 16-bit universe (a bijection).
C1_Bijection ==
    ux = Universe => Image(listID) = 0..(Universe - 1)

C1_Witness == ux = Universe /\ listID = <<255, 255, 255, 255>>

\* C2: for every key, exactly 32768 of the 65536 inputs satisfy hasValue and
\* exactly 32768 do not.
C2_HalfSplit ==
    /\ members <= ux
    /\ ux = Universe => (members = 32768 /\ Universe - members = 32768)

C2_Witness == ux = Universe /\ members = 32768 /\ listID = <<0, 0, 0, 0>>

=============================================================================
